---------------------------- MODULE Spec2Model ----------------------------
(***************************************************************************)
(* Model of CRPML (create-rpm-library): the variant resolution and file    *)
(* merge engine of src/unnamed/part_000 (the CLI's index.ts).              *)
(*                                                                         *)
(* JSON values are tagged trees.  An object keeps its entries as a         *)
(* sequence, because JavaScript objects enumerate their own keys in a      *)
(* defined order (canonical array indices ascending, then the other keys   *)
(* in insertion order) and JSON.stringify writes them in that order.       *)
(* A text is either a JSON document together with its layout, or a plain   *)
(* (non-JSON) file: JSON.parse drops the layout, JSON.stringify fixes it.  *)
(***************************************************************************)
EXTENDS Integers, Sequences, FiniteSets, TLC

(***************************************************************************)
(* Sequence helpers.                                                       *)
(***************************************************************************)
Range(s) == {s[i] : i \in DOMAIN s}

NoDup(s) == \A i, j \in DOMAIN s : s[i] = s[j] => i = j

Contains(s, x) == \E i \in DOMAIN s : s[i] = x

RECURSIVE SelectIn(_, _)
\* Array.prototype.filter(x => keep.includes(x)) on a sequence
SelectIn(s, keep) ==
    IF s = <<>> THEN <<>>
    ELSE IF Head(s) \in keep THEN <<Head(s)>> \o SelectIn(Tail(s), keep)
    ELSE SelectIn(Tail(s), keep)

Position(s, x) == CHOOSE i \in DOMAIN s : s[i] = x

(***************************************************************************)
(* JavaScript property keys.                                               *)
(* IndexOrder lists the keys of the universe that are canonical array      *)
(* indices, in ascending numeric order; LexOrder lists every key of the    *)
(* universe in the order of Array.prototype.sort() (UTF-16 code units).    *)
(***************************************************************************)
IndexOrder == <<"0", "1", "2", "9", "10">>

LexOrder ==
    <<"0", "1", "10", "2", "9", "a", "b", "dependencies", "devDependencies",
      "name", "optionalDependencies", "peerDependencies", "scripts",
      "version", "x", "y">>

IsIndexKey(k) == Contains(IndexOrder, k)

IndexLess(k1, k2) == Position(IndexOrder, k1) < Position(IndexOrder, k2)

LexLess(k1, k2) == Position(LexOrder, k1) < Position(LexOrder, k2)

(***************************************************************************)
(* JSON values.                                                            *)
(***************************************************************************)
JNull == [t |-> "null", v |-> "", e |-> <<>>]
JBool(b) == [t |-> "bool", v |-> b, e |-> <<>>]
JNum(n) == [t |-> "num", v |-> n, e |-> <<>>]
JStr(s) == [t |-> "str", v |-> s, e |-> <<>>]
JArr(items) == [t |-> "arr", v |-> "", e |-> items]
JObj(entries) == [t |-> "obj", v |-> "", e |-> entries]
Prop(k, val) == [k |-> k, val |-> val]

IsObj(x) == x.t = "obj"
IsArr(x) == x.t = "arr"

\* JavaScript truthiness, as used by `if (fileSourceJson.dependencies)`
Truthy(x) ==
    ~ \/ x.t = "null"
      \/ (x.t = "bool" /\ x.v = "false")
      \/ (x.t = "num" /\ x.v = "0")
      \/ (x.t = "str" /\ x.v = "")

KeysOf(entries) == [i \in DOMAIN entries |-> entries[i].k]

HasProp(entries, k) == \E i \in DOMAIN entries : entries[i].k = k

GetProp(entries, k) == entries[CHOOSE i \in DOMAIN entries : entries[i].k = k].val

RECURSIVE InsertIndexProp(_, _, _)
\* a new array-index key goes before the first non-index key and before
\* the first index key that is numerically larger
InsertIndexProp(entries, k, val) ==
    IF entries = <<>> THEN <<Prop(k, val)>>
    ELSE IF ~IsIndexKey(Head(entries).k) \/ IndexLess(k, Head(entries).k)
         THEN <<Prop(k, val)>> \o entries
         ELSE <<Head(entries)>> \o InsertIndexProp(Tail(entries), k, val)

\* obj[k] = val on an ordinary object: an existing key keeps its place
SetProp(entries, k, val) ==
    IF HasProp(entries, k)
    THEN [i \in DOMAIN entries |->
            IF entries[i].k = k THEN Prop(k, val) ELSE entries[i]]
    ELSE IF IsIndexKey(k) THEN InsertIndexProp(entries, k, val)
    ELSE Append(entries, Prop(k, val))

RECURSIVE AssignAll(_, _)
\* copies the entries of src onto dst, left to right
AssignAll(dst, src) ==
    IF src = <<>> THEN dst
    ELSE AssignAll(SetProp(dst, Head(src).k, Head(src).val), Tail(src))

\* the own enumerable properties of a value, in enumeration order:
\* Object.keys(x).map(k => [k, x[k]]).  Numbers, booleans have none; an
\* array has its indices.  (Strings and null are not passed here.)
OwnProps(x) ==
    IF IsObj(x) THEN x.e
    ELSE IF IsArr(x) THEN [i \in DOMAIN x.e |-> Prop(IndexOrder[i], x.e[i])]
    ELSE <<>>

RECURSIVE Reorder(_)
\* the value JSON.parse builds from a document: members are defined in
\* text order, so index keys move to the front (a repeated key keeps its
\* first place and its last value)
Reorder(x) ==
    IF IsObj(x)
    THEN JObj(AssignAll(<<>>, [i \in DOMAIN x.e |-> Prop(x.e[i].k, Reorder(x.e[i].val))]))
    ELSE IF IsArr(x) THEN JArr([i \in DOMAIN x.e |-> Reorder(x.e[i])])
    ELSE x

(***************************************************************************)
(* Texts.                                                                  *)
(***************************************************************************)
PlainText(id) == [kind |-> "plain", doc |-> JStr(id), fmt |-> "plain"]
JsonText(doc, fmt) == [kind |-> "json", doc |-> doc, fmt |-> fmt]

IsJsonText(text) == text.kind = "json"

\* JSON.parse(text); only defined when IsJsonText(text) (else SyntaxError)
JSONparse(text) == Reorder(text.doc)

\* a value whose serialisation has no line breaks or separators to lay out
IsFlat(x) == x.e = <<>>

\* JSON.stringify(x, null, 2)
JSONstringify2(x) == JsonText(x, IF IsFlat(x) THEN "flat" ELSE "indent2")

\* JSON.stringify(x)
JSONstringify(x) == JsonText(x, IF IsFlat(x) THEN "flat" ELSE "compact")

(***************************************************************************)
(* deepmerge (the npm package imported at line 105, version 4, called with *)
(* its default options at line 394).                                       *)
(*   deepmerge(target, source): when exactly one of the two is an array    *)
(*   the result is source; two arrays give target.concat(source); anything *)
(*   else goes to mergeObject.                                             *)
(*   mergeObject(target, source): the keys of target (when it is an object)*)
(*   then the keys of source; a source value that is an object or an array *)
(*   and whose key is on target is merged with deepmerge, every other      *)
(*   source value replaces.                                                *)
(*   deepmerge.all(array) = array.reduce(deepmerge, {}).                   *)
(***************************************************************************)
isMergeableObject(x) == IsObj(x) \/ IsArr(x)

\* ArrayMerge with the overwriting array rule: the later array replaces
ArrayMergeOverwrite(target, source) == source

\* defaultArrayMerge: target.concat(source)
ArrayMerge(target, source) == JArr(target.e \o source.e)

RECURSIVE deepmerge(_, _)
RECURSIVE MergeEntries(_, _, _)
\* the forEach over the keys of source in mergeObject
MergeEntries(dest, target, src) ==
    IF src = <<>> THEN dest
    ELSE LET k == Head(src).k
             sv == Head(src).val
             onTarget == IsObj(target) /\ HasProp(target.e, k)
             nv == IF onTarget /\ isMergeableObject(sv)
                   THEN deepmerge(GetProp(target.e, k), sv)
                   ELSE sv
         IN MergeEntries(SetProp(dest, k, nv), target, Tail(src))

mergeObject(target, source) ==
    JObj(MergeEntries(IF isMergeableObject(target) THEN OwnProps(target) ELSE <<>>,
                      target, OwnProps(source)))

deepmerge(target, source) ==
    IF IsArr(source) # IsArr(target) THEN source
    ELSE IF IsArr(source) THEN ArrayMerge(target, source)
    ELSE mergeObject(target, source)

RECURSIVE DeepmergeFrom(_, _)
DeepmergeFrom(prev, array) ==
    IF array = <<>> THEN prev
    ELSE DeepmergeFrom(deepmerge(prev, Head(array)), Tail(array))

deepmergeAll(array) == DeepmergeFrom(JObj(<<>>), array)

RECURSIVE AssignFrom(_, _)
AssignFrom(dst, srcs) ==
    IF srcs = <<>> THEN dst
    ELSE AssignFrom(AssignAll(dst, OwnProps(Head(srcs))), Tail(srcs))

\* Object.assign({}, ...jsonSources)
ObjectAssign(jsonSources) == JObj(AssignFrom(<<>>, jsonSources))

(***************************************************************************)
(* sortByKeys: Object.keys(src).sort().reduce((obj, key) => {obj[key] =    *)
(* src[key]; return obj}, {}).                                             *)
(***************************************************************************)
RECURSIVE InsertSorted(_, _)
InsertSorted(sorted, p) ==
    IF sorted = <<>> THEN <<p>>
    ELSE IF LexLess(p.k, Head(sorted).k) THEN <<p>> \o sorted
    ELSE <<Head(sorted)>> \o InsertSorted(Tail(sorted), p)

RECURSIVE SortProps(_)
\* the properties of src taken in the order of Object.keys(src).sort()
SortProps(props) ==
    IF props = <<>> THEN <<>>
    ELSE InsertSorted(SortProps(Tail(props)), Head(props))

sortByKeys(src) == JObj(AssignAll(<<>>, SortProps(OwnProps(src))))

(***************************************************************************)
(* mergeFiles(template, path, sources).  A source is a SourceFileInfo       *)
(* [variant, sourceText]; the result is a MergedFileInfo, or the error the *)
(* call throws.  A custom merger is foreign code: what importing and       *)
(* calling it does is the parameter `custom`.                              *)
(***************************************************************************)
Merged(variants, text) ==
    [ok |-> TRUE, error |-> "", contributingVariants |-> variants, sourceText |-> text]

Thrown(message) ==
    [ok |-> FALSE, error |-> message, contributingVariants |-> <<>>,
     sourceText |-> PlainText("")]

VariantsOf(sources) == [i \in DOMAIN sources |-> sources[i].variant]

\* sources.map(source => JSON.parse(source.sourceText))
ParseAll(sources) == [i \in DOMAIN sources |-> JSONparse(sources[i].sourceText)]

AllJson(sources) == \A i \in DOMAIN sources : IsJsonText(sources[i].sourceText)

CustomMethods == {"custom:merge.js"}

isCustomMergeMethod(mergeMethod) == mergeMethod \in CustomMethods

\* MergeSingle that sends a lone JSON source through parse and stringify
MergeSingleReformatted(sources) ==
    Merged(<<sources[1].variant>>,
           IF IsJsonText(sources[1].sourceText)
           THEN JSONstringify2(JSONparse(sources[1].sourceText))
           ELSE sources[1].sourceText)

MergeSingle(sources) == Merged(<<sources[1].variant>>, sources[1].sourceText)

\* MergeJson written with deepmerge(...jsonSources) in place of deepmerge.all:
\* the two-argument form merges the first two sources only
MergeJsonSpread(sources) ==
    IF ~AllJson(sources) THEN Thrown("SyntaxError: Unexpected token in JSON")
    ELSE Merged(VariantsOf(sources),
                JSONstringify2(deepmerge(JSONparse(sources[1].sourceText),
                                         JSONparse(sources[2].sourceText))))

MergeJson(sources) ==
    IF ~AllJson(sources) THEN Thrown("SyntaxError: Unexpected token in JSON")
    ELSE Merged(VariantsOf(sources), JSONstringify2(deepmergeAll(ParseAll(sources))))

\* MergeJsonShallow that merges nested objects too (the json branch taken for
\* json-shallow)
MergeJsonShallowDeep(sources) ==
    IF ~AllJson(sources) THEN Thrown("SyntaxError: Unexpected token in JSON")
    ELSE Merged(VariantsOf(sources), JSONstringify2(deepmergeAll(ParseAll(sources))))

MergeJsonShallow(sources) ==
    IF ~AllJson(sources) THEN Thrown("SyntaxError: Unexpected token in JSON")
    ELSE Merged(VariantsOf(sources), JSONstringify2(ObjectAssign(ParseAll(sources))))

\* MergeLast that indexes the first source (sources[0])
MergeLastFirst(sources) == Merged(<<sources[1].variant>>, sources[1].sourceText)

MergeLast(sources) ==
    LET source == sources[Len(sources)]
    IN Merged(<<source.variant>>, source.sourceText)

\* MergeCustom that credits every source whatever the merger returns
MergeCustomCreditsAll(mergeMethod, sources, custom) ==
    CASE custom.kind = "importFails" -> Thrown("Cannot find module")
      [] custom.kind = "notFunction" ->
            Thrown("Invalid custom merger merge.js: default export is not a function")
      [] custom.kind = "throws" -> Thrown("custom merger threw")
      [] custom.kind = "invalid" ->
            Thrown("Invalid custom merger merge.js: invalid result")
      [] OTHER -> Merged(VariantsOf(sources), custom.sourceText)

\* `custom` is what importing the module and calling its default export on
\* the sources does: the import fails, the export is not a function, the
\* function throws, its result fails customResultSchema, or it is a string
\* or an object {sourceText, contributingVariants}
MergeCustom(mergeMethod, sources, custom) ==
    CASE custom.kind = "importFails" -> Thrown("Cannot find module")
      [] custom.kind = "notFunction" ->
            Thrown("Invalid custom merger merge.js: default export is not a function")
      [] custom.kind = "throws" -> Thrown("custom merger threw")
      [] custom.kind = "invalid" ->
            Thrown("Invalid custom merger merge.js: invalid result")
      [] custom.kind = "string" -> Merged(VariantsOf(sources), custom.sourceText)
      [] OTHER -> Merged(custom.contributingVariants, custom.sourceText)

\* mergeFiles that falls back to the last source where no merge method is
\* declared (no assert at line 389)
mergeFilesDefaultLast(template, path, sources, custom) ==
    IF Len(sources) = 0 THEN Thrown("Sources length is zero")
    ELSE IF Len(sources) = 1 THEN MergeSingle(sources)
    ELSE LET mergeMethod == template.files[path]
         IN IF mergeMethod = "nofiles"
            THEN Thrown("Cannot read properties of undefined (reading '" \o path \o "')")
            ELSE IF mergeMethod = "json" THEN MergeJson(sources)
            ELSE IF mergeMethod = "json-shallow" THEN MergeJsonShallow(sources)
            ELSE IF isCustomMergeMethod(mergeMethod)
                 THEN MergeCustom(mergeMethod, sources, custom)
            ELSE MergeLast(sources)

mergeFiles(template, path, sources, custom) ==
    IF Len(sources) = 0 THEN Thrown("Sources length is zero")
    ELSE IF Len(sources) = 1 THEN MergeSingle(sources)
    ELSE LET mergeMethod == template.files[path]
         IN IF mergeMethod = "nofiles"
            THEN Thrown("Cannot read properties of undefined (reading '" \o path \o "')")
            ELSE IF mergeMethod = "none" THEN Thrown("Missing merge method for " \o path)
            ELSE IF mergeMethod = "json" THEN MergeJson(sources)
            ELSE IF mergeMethod = "json-shallow" THEN MergeJsonShallow(sources)
            ELSE IF mergeMethod = "last" THEN MergeLast(sources)
            ELSE IF isCustomMergeMethod(mergeMethod)
                 THEN MergeCustom(mergeMethod, sources, custom)
            ELSE Thrown("Invalid merge method for " \o path)

(***************************************************************************)
(* getFullName, getVariantIdsWithRequired and the structures of a run.     *)
(*                                                                         *)
(* A template is [declared, required, supplies, files]: the variant IDs in *)
(* the order template.json writes them, the set of required variants, the  *)
(* file list of each variant, and the merge method of each path ("none":   *)
(* no entry, or an entry without mergeMethod; "nofiles": template.json has  *)
(* no files section, which the schema allows, and template.files[path]     *)
(* throws a TypeError that quotes the key).  The files section is read     *)
(* at one place, line 388, once per path with several sources: a run draws *)
(* the entry of a path there and keeps it in template.files from then on.  *)
(***************************************************************************)
getFullName(config, input) ==
    IF config.scope # "" THEN config.scope \o "/" \o input ELSE input

\* the order in which Object.entries enumerates an object whose keys were
\* defined in the order `keys`
EntriesOrder(keys) == KeysOf(AssignAll(<<>>, [i \in DOMAIN keys |-> Prop(keys[i], JNull)]))

\* Object.entries(template.variants).filter(([, v]) => v.required).map(([k]) => k)
RequiredIds(template) == SelectIn(EntriesOrder(template.declared), template.required)

\* getVariantIdsWithRequired with the required variants left out
getVariantIdsWithoutRequired(variantIds, template) == variantIds

\* getVariantIdsWithRequired with the two spreads swapped
getVariantIdsRequiredFirst(variantIds, template) == RequiredIds(template) \o variantIds

getVariantIdsWithRequired(variantIds, template) == variantIds \o RequiredIds(template)

(***************************************************************************)
(* State.  `call` and `ret` hold one call of a function of the program and *)
(* what it returned, for the properties of the functions taken alone.  The *)
(* other variables are one run of the CLI after loadConfig:                *)
(*   pc            where run() stands                                      *)
(*   config        config.json (scope)                                     *)
(*   template      the template the user picked                            *)
(*   answers       the PromptResult                                        *)
(*   active        variantIdsWithRequired                                  *)
(*   files         the Map of paths to sources, in insertion order         *)
(*   fileVariants  the Map of paths to credited variants                   *)
(*   disk          the save location: outDir ("absent", "exists" before    *)
(*                 the run made it, "created"), and the files written      *)
(*                 under it; runConfigurations: the files written under    *)
(*                 .idea/runConfigurations                                 *)
(*   error         the message of the error that ended the run, or ""      *)
(*   imported      the custom merger modules imported, each with whether   *)
(*                 its default export was called                           *)
(*   spawned       the child processes run (the installer)                 *)
(*   console       what was printed: out (the lines of the tree) and err   *)
(*   exitCode      the exit code of the process, -1 while it runs          *)
(***************************************************************************)
VARIABLES call, ret, pc, config, template, answers, active, files, fileVariants,
          disk, error, imported, spawned, console, exitCode

effectVars == <<imported, spawned, console, exitCode>>

runVars == <<pc, config, template, answers, active, files, fileVariants, disk, error,
             effectVars>>

vars == <<call, ret, pc, config, template, answers, active, files, fileVariants,
          disk, error, imported, spawned, console, exitCode>>

Pending == [done |-> FALSE]
Returned(value) == [done |-> TRUE, value |-> value]

NoCall == [op |-> "none"]

NoTemplate == [declared |-> <<>>, required |-> {}, supplies |-> <<>>, files |-> <<>>]

\* packageManager and createJetbrainsRunConfigurations are "unread" until the
\* run reads them or ends
NoAnswers ==
    [packageName |-> "", variants |-> <<>>, isSaveLocationOk |-> FALSE,
     packageManager |-> "unread", createJetbrainsRunConfigurations |-> "unread"]

\* nothing was made, under the save location or under .idea
EmptyDisk == [outDir |-> "absent", written |-> <<>>, runConfigurations |-> <<>>]

NoOutput == [out |-> <<>>, err |-> <<>>]

\* the run variables when only a function is called
RunIdle ==
    /\ pc = "idle"
    /\ config = [scope |-> ""]
    /\ template = NoTemplate
    /\ answers = NoAnswers
    /\ active = <<>>
    /\ files = <<>>
    /\ fileVariants = <<>>
    /\ disk = EmptyDisk
    /\ error = ""
    /\ imported = <<>>
    /\ spawned = <<>>
    /\ console = NoOutput
    /\ exitCode = -1

(***************************************************************************)
(* Bounds and input pools.                                                 *)
(***************************************************************************)
\* the most contributions to one path in a call of mergeFiles taken alone
MaxSources == 3

One == JNum("1")
Two == JNum("2")
Obj1(k, val) == JObj(<<Prop(k, val)>>)
Obj2(k1, v1, k2, v2) == JObj(<<Prop(k1, v1), Prop(k2, v2)>>)

\* JSON documents as they stand in variant files (members in text order)
JsonPool ==
    { JObj(<<>>),
      Obj1("a", One), Obj1("a", Two), Obj1("a", JNull),
      Obj1("a", Obj1("x", One)), Obj1("a", Obj1("y", Two)),
      Obj1("a", JArr(<<One>>)), Obj1("a", JArr(<<Two>>)),
      Obj1("a", Obj1("x", Obj1("y", One))),
      Obj2("b", Two, "a", One), Obj2("b", One, "9", Two) }

TextPool == {JsonText(d, "other") : d \in JsonPool} \cup {PlainText("readme")}

\* the variant credited with the i-th source of a call taken alone
SourceVariants == <<"b", "2", "1", "c">>

SourceSeqs(max) ==
    UNION { { [i \in 1..n |-> [variant |-> SourceVariants[i], sourceText |-> f[i]]] :
                f \in [1..n -> TextPool] } : n \in 1..max }

MergeMethods == {"json", "json-shallow", "last"} \cup CustomMethods

MergedText == PlainText("merged by merge.js")

MergedJsonText == JsonText(Obj1("name", JStr("from-merger")), "compact")

\* what importing and calling a custom merger on `sources` can do
CustomOutcomes(sources) ==
    { [kind |-> k, sourceText |-> MergedText, contributingVariants |-> <<>>] :
        k \in {"importFails", "notFunction", "throws", "invalid"} }
    \cup
    { [kind |-> "string", sourceText |-> t, contributingVariants |-> <<>>] :
        t \in {MergedText, MergedJsonText} }
    \cup
    { [kind |-> "object", sourceText |-> t, contributingVariants |-> cv] :
        t \in {MergedText, MergedJsonText},
        cv \in {<<sources[1].variant>>, VariantsOf(sources), <<"ghost">>} }

\* the most variants a template declares
MaxVariants == 2

\* the most IDs in a list handed to getVariantIdsWithRequired taken alone
MaxChosen == 2

VariantIdPool == <<"b", "2", "1">>

VariantIds ==
    {VariantIdPool[i] : i \in {j \in DOMAIN VariantIdPool : j <= MaxVariants}}

\* the lists of up to n elements of S
SeqsUpTo(S, n) == UNION {[1..m -> S] : m \in 0..n}

\* variants: an object with at least one property (minProperties: 1)
DeclaredOrders == {d \in SeqsUpTo(VariantIds, MaxVariants) : d # <<>> /\ NoDup(d)}

PackageJson == "package.json"

TsConfig == "tsconfig.json"

FileLists == {<<PackageJson>>, <<TsConfig>>, <<PackageJson, TsConfig>>}

\* the templates, their files section not read yet
Templates ==
    UNION { { [declared |-> d, required |-> r, supplies |-> s, files |-> <<>>] :
                r \in SUBSET Range(d),
                s \in [Range(d) -> FileLists] } :
            d \in DeclaredOrders }

\* the entries template.files can hold for a path that mergeFiles looks up
LookupChoices(tmpl, sources) ==
    IF Len(sources) < 2 THEN {"unread"}
    ELSE MergeMethods \cup {"none"}
         \cup (IF DOMAIN tmpl.files = {} THEN {"nofiles"} ELSE {})

WithLookup(tmpl, path, method) ==
    IF method = "unread" THEN tmpl
    ELSE [tmpl EXCEPT !.files = (path :> method) @@ @]

NoCustom == [kind |-> "none", sourceText |-> MergedText, contributingVariants |-> <<>>]

\* a custom merger is imported and called for a custom method only
OutcomeChoices(method, sources) ==
    IF isCustomMergeMethod(method) /\ Len(sources) >= 2
    THEN CustomOutcomes(sources) ELSE {NoCustom}

\* the same within a run, where an object result credits the first source
\* alone or a variant that is none of the sources
RunOutcomeChoices(method, sources) ==
    {c \in OutcomeChoices(method, sources) :
        c.kind = "object" =>
            \/ c.sourceText = MergedJsonText /\ c.contributingVariants = <<sources[1].variant>>
            \/ c.sourceText = MergedText /\ c.contributingVariants = <<"ghost">>}

\* template.variantFiles[variant][path]: the files of the variant directories
variantFiles(variant, path) ==
    IF path = PackageJson
    THEN CASE variant = "b" ->
                JsonText(Obj2("name", JStr("tmpl"),
                              "dependencies", Obj2("b", JStr("^1"), "a", JStr("^2"))),
                         "other")
           [] variant = "2" ->
                JsonText(Obj2("dependencies", Obj2("9", JStr("^9"), "10", JStr("^10")),
                              "scripts", Obj1("x", JStr("tsc"))),
                         "other")
           [] OTHER ->
                JsonText(Obj2("version", JStr("2.0.0"),
                              "devDependencies", Obj2("y", JStr("^1"), "x", JStr("^1"))),
                         "indent2")
    ELSE CASE variant = "b" -> JsonText(Obj1("a", Obj1("x", One)), "other")
           [] variant = "2" -> JsonText(Obj1("a", Obj1("y", Two)), "indent2")
           [] OTHER -> PlainText("// tsconfig with a comment")

Configs == {[scope |-> ""], [scope |-> "@radiant"]}

PackageNames == {"mylib"}

(***************************************************************************)
(* SpecMerge: mergeFiles taken alone, on every source list of the pool.    *)
(***************************************************************************)
MergeInit ==
    /\ call \in [op : {"mergeFiles"}, path : {"a.json"},
                 method : MergeMethods \cup {"none", "nofiles"}, sources : SourceSeqs(MaxSources)]
    /\ ret = Pending
    /\ RunIdle

CallMergeFiles ==
    /\ call.op = "mergeFiles"
    /\ ~ret.done
    /\ \E custom \in OutcomeChoices(call.method, call.sources) :
         ret' = [done |-> TRUE,
                 value |-> mergeFiles([files |-> (call.path :> call.method)],
                                      call.path, call.sources, custom),
                 merger |-> custom]
    /\ UNCHANGED <<call, runVars>>

MergeNext == CallMergeFiles

SpecMerge == MergeInit /\ [][MergeNext]_vars

(***************************************************************************)
(* SpecResolve: getVariantIdsWithRequired taken alone, on every list of    *)
(* variant IDs of the template.                                            *)
(***************************************************************************)
ResolveInit ==
    /\ \E d \in DeclaredOrders, r \in SUBSET VariantIds :
         /\ r \subseteq Range(d)
         /\ \E c \in SeqsUpTo(Range(d), MaxChosen) :
              call = [op |-> "getVariantIdsWithRequired", variantIds |-> c,
                      template |-> [declared |-> d, required |-> r,
                                    supplies |-> <<>>, files |-> <<>>]]
    /\ ret = Pending
    /\ RunIdle

CallGetVariantIdsWithRequired ==
    /\ call.op = "getVariantIdsWithRequired"
    /\ ~ret.done
    /\ ret' = Returned(getVariantIdsWithRequired(call.variantIds, call.template))
    /\ UNCHANGED <<call, runVars>>

ResolveNext == CallGetVariantIdsWithRequired

SpecResolve == ResolveInit /\ [][ResolveNext]_vars

(***************************************************************************)
(* readTemplates.  A templates directory is [exists, entries]: whether the *)
(* directory is there and what readdir lists in it.  An entry is            *)
(*   [id, kind, json, has, displayName, variants]                          *)
(* kind: "dir" or "file"; json: template.json is "absent", "garbled" (not  *)
(* JSON) or "parsed"; has: the keys the parsed object has; variants: the   *)
(* properties of its variants object in text order, each                   *)
(*   [id, has, displayName, files, dir]                                    *)
(* has: the keys the variant has; files: its files array, each path with   *)
(* what stands at it in the variant directory ("absent", "file", "dir");   *)
(* dir: what stands at the variant directory.                              *)
(***************************************************************************)
LoadFailed(message) == [ok |-> FALSE, error |-> message, templates |-> <<>>]

Loaded(templates) == [ok |-> TRUE, error |-> "", templates |-> templates]

\* templateSchema on a parsed template.json: displayName and variants are
\* required, variants has at least one property, every variant has
\* displayName and files
isValidTemplate(entry) ==
    /\ {"displayName", "variants"} \subseteq entry.has
    /\ Len(entry.variants) >= 1
    /\ \A i \in DOMAIN entry.variants :
         {"displayName", "files"} \subseteq entry.variants[i].has

\* the variants in the order of Object.entries(templateConfig.variants)
VariantEntries(entry) ==
    LET ids == [i \in DOMAIN entry.variants |-> entry.variants[i].id]
        order == EntriesOrder(ids)
    IN [n \in DOMAIN order |-> entry.variants[Position(ids, order[n])]]

\* ReadVariantFiles without the existsSync assert and with a read that
\* skips what it cannot read
ReadVariantFilesUnchecked(variant) ==
    Loaded(<<[variant |-> variant.id,
              files |-> [i \in DOMAIN variant.files |-> variant.files[i].path]]>>)

\* lines 296-312: every callback asserts existsSync before its first await,
\* so a missing file rejects first; a path that is a directory fails in
\* readFile
ReadVariantFiles(variant) ==
    IF \E i \in DOMAIN variant.files : variant.files[i].state = "absent"
    THEN LET i == CHOOSE m \in DOMAIN variant.files :
                    /\ variant.files[m].state = "absent"
                    /\ \A n \in DOMAIN variant.files :
                         variant.files[n].state = "absent" => m <= n
         IN LoadFailed("Invalid variant " \o variant.id \o ": the file "
                       \o variant.files[i].path \o " doesn't exist")
    ELSE IF \E i \in DOMAIN variant.files : variant.files[i].state = "dir"
    THEN LoadFailed("EISDIR: illegal operation on a directory, read")
    ELSE Loaded(<<[variant |-> variant.id,
                   files |-> [i \in DOMAIN variant.files |-> variant.files[i].path]]>>)

RECURSIVE LoadVariants(_, _, _)
\* the loop of lines 272-315 over the variants that are left
LoadVariants(variants, readSoFar, usedVariantDisplayNames) ==
    IF variants = <<>> THEN Loaded(readSoFar)
    ELSE LET variant == Head(variants)
         IN IF variant.displayName \in usedVariantDisplayNames
            THEN LoadFailed("Invalid variant " \o variant.id
                            \o ": the display name is already being used")
            ELSE IF variant.dir = "absent"
            THEN LoadFailed("Invalid variant " \o variant.id
                            \o ": its directory does not exist")
            ELSE IF variant.dir # "dir"
            THEN LoadFailed("Invalid variant " \o variant.id
                            \o ": its directory is not a directory")
            ELSE LET read == ReadVariantFiles(variant)
                 IN IF ~read.ok THEN read
                    ELSE LoadVariants(Tail(variants), readSoFar \o read.templates,
                                      usedVariantDisplayNames \cup {variant.displayName})

RECURSIVE LoadTemplates(_, _, _)
\* the loop of lines 239-323 over the directory entries that are left
LoadTemplates(entries, result, usedTemplateDisplayNames) ==
    IF entries = <<>> THEN Loaded(result)
    ELSE LET entry == Head(entries)
         IN IF entry.kind # "dir"
            THEN LoadFailed("invalid template " \o entry.id \o ": not a directory")
            ELSE IF entry.json = "absent"
            THEN LoadFailed("Invalid template " \o entry.id
                            \o ": template.json does not exist")
            ELSE IF entry.json = "garbled"
            THEN LoadFailed("SyntaxError: Unexpected token in JSON")
            ELSE IF ~isValidTemplate(entry)
            THEN LoadFailed("Invalid template " \o entry.id \o ": invalid configuration")
            ELSE IF entry.displayName \in usedTemplateDisplayNames
            THEN LoadFailed("Invalid template " \o entry.id \o ": duplicate display name")
            ELSE LET loaded == LoadVariants(VariantEntries(entry), <<>>, {})
                 IN IF ~loaded.ok THEN loaded
                    ELSE LoadTemplates(
                            Tail(entries),
                            Append(result, [id |-> entry.id,
                                            displayName |-> entry.displayName,
                                            variantFiles |-> loaded.templates]),
                            usedTemplateDisplayNames \cup {entry.displayName})

readTemplates(dir) ==
    IF ~dir.exists
    THEN LoadFailed("templates directory is missing in create-rpm-library configuration")
    ELSE LoadTemplates(dir.entries, <<>>, {})

(***************************************************************************)
(* The templates directories readTemplates is called on.                   *)
(***************************************************************************)
\* the most entries of a templates directory
MaxTemplates == 2

TemplateIdPool == <<"lib", "app", "cli">>

TemplateNames == {"Library", "Application"}

Defects ==
    { "none", "notDirectory", "noTemplateJson", "notJson", "noDisplayName",
      "noVariantsKey", "emptyVariants", "variantNoFiles", "sameVariantNames",
      "variantDirAbsent", "variantDirIsFile", "fileAbsent", "fileIsDirectory",
      "secondFileAbsent" }

\* variant b: one file (two under secondFileAbsent)
BaseVariant(defect) ==
    [ id |-> "b",
      has |-> IF defect = "variantNoFiles" THEN {"displayName"}
              ELSE {"displayName", "files"},
      displayName |-> "Base",
      files |-> CASE defect = "variantNoFiles" -> <<>>
                  [] defect = "fileAbsent" -> <<[path |-> "index.ts", state |-> "absent"]>>
                  [] defect = "fileIsDirectory" -> <<[path |-> "index.ts", state |-> "dir"]>>
                  [] defect = "secondFileAbsent" ->
                        <<[path |-> "index.ts", state |-> "dir"],
                          [path |-> "README.md", state |-> "absent"]>>
                  [] OTHER -> <<[path |-> "index.ts", state |-> "file"]>>,
      dir |-> "dir" ]

\* variant 2: required, no files of its own
ExtraVariant(defect) ==
    [ id |-> "2",
      has |-> {"displayName", "files", "required"},
      displayName |-> IF defect = "sameVariantNames" THEN "Base" ELSE "Extra",
      files |-> <<>>,
      dir |-> CASE defect = "variantDirAbsent" -> "absent"
                [] defect = "variantDirIsFile" -> "file"
                [] OTHER -> "dir" ]

TemplateEntry(id, name, defect) ==
    [ id |-> id,
      kind |-> IF defect = "notDirectory" THEN "file" ELSE "dir",
      json |-> CASE defect \in {"notDirectory", "noTemplateJson"} -> "absent"
                 [] defect = "notJson" -> "garbled"
                 [] OTHER -> "parsed",
      has |-> CASE defect \in {"notDirectory", "noTemplateJson", "notJson"} -> {}
                [] defect = "noDisplayName" -> {"variants"}
                [] defect = "noVariantsKey" -> {"displayName"}
                [] OTHER -> {"displayName", "variants", "files"},
      displayName |-> name,
      variants |-> IF defect \in {"notDirectory", "noTemplateJson", "notJson",
                                  "noVariantsKey", "emptyVariants"}
                   THEN <<>>
                   ELSE <<BaseVariant(defect), ExtraVariant(defect)>> ]

TemplateDirs(max) ==
    {[exists |-> FALSE, entries |-> <<>>]}
    \cup UNION { { [exists |-> TRUE,
                    entries |-> [i \in 1..n |->
                                    TemplateEntry(TemplateIdPool[i], f[i][1], f[i][2])]] :
                   f \in [1..n -> TemplateNames \X Defects] } :
                 n \in 0..max }

(***************************************************************************)
(* The tree of the generated files.  A DirectoryTreeItem is                *)
(* [path, sourceVariants]: the segments of the path and the credited       *)
(* variants.  What logDirectoryTree prints is a sequence of lines          *)
(*   [padding, lineCharacter, displayPath, isDirectory, endPadding,        *)
(*    fileVariant]                                                         *)
(* lineCharacter: "-" (first and last), "," (first), "L" (last), "+"       *)
(* (between); the padding uses "| " for a vertical bar and a space.        *)
(***************************************************************************)
RECURSIVE Join(_, _)
\* Array.prototype.join
Join(parts, separator) ==
    IF parts = <<>> THEN ""
    ELSE IF Len(parts) = 1 THEN parts[1]
    ELSE parts[1] \o separator \o Join(Tail(parts), separator)

RECURSIVE Repeat(_, _)
\* String.prototype.repeat for a count that is not negative
Repeat(str, count) == IF count = 0 THEN "" ELSE str \o Repeat(str, count - 1)

RECURSIVE groupBy(_, _)
\* groupBy(items, name => name.path[0]) of utils/groupBy: a Map from each
\* first segment, in the order of first occurrence, to the items that start
\* with it, in the order of the items; `groups` are the groups made so far
groupBy(items, groups) ==
    IF items = <<>> THEN groups
    ELSE LET item == Head(items)
             key == item.path[1]
         IN IF \E g \in DOMAIN groups : groups[g].key = key
            THEN groupBy(Tail(items),
                         [g \in DOMAIN groups |->
                            IF groups[g].key = key
                            THEN [key |-> key, items |-> Append(groups[g].items, item)]
                            ELSE groups[g]])
            ELSE groupBy(Tail(items), Append(groups, [key |-> key, items |-> <<item>>]))

RECURSIVE SelectNonEmpty(_)
\* .filter(el => el.path.length > 0)
SelectNonEmpty(items) ==
    IF items = <<>> THEN <<>>
    ELSE IF Len(Head(items).path) > 0 THEN <<Head(items)>> \o SelectNonEmpty(Tail(items))
    ELSE SelectNonEmpty(Tail(items))

\* files.map(file => ({...file, path: file.path.slice(1)}))
\*      .filter(el => el.path.length > 0)
SliceAndFilter(items) ==
    SelectNonEmpty([i \in DOMAIN items |->
                      [path |-> Tail(items[i].path),
                       sourceVariants |-> items[i].sourceVariants]])

\* DisplayLoop that stops at the first directory: nothing is folded
DisplayLoopUnfolded(parts, nextGroup) ==
    IF Len(nextGroup) = 0
    THEN [displayPath |-> parts, isDisplayingFile |-> TRUE, hasVariants |-> FALSE,
          displayVariants |-> <<>>, childFiles |-> <<>>]
    ELSE [displayPath |-> parts, isDisplayingFile |-> FALSE,
          hasVariants |-> FALSE, displayVariants |-> <<>>,
          childFiles |-> nextGroup]

RECURSIVE DisplayLoop(_, _)
\* the while loop of getDisplayFileName (lines 498-530) and the return
\* after it
DisplayLoop(parts, nextGroup) ==
    IF Len(nextGroup) = 0
    THEN [displayPath |-> parts, isDisplayingFile |-> TRUE, hasVariants |-> FALSE,
          displayVariants |-> <<>>, childFiles |-> <<>>]
    ELSE LET nextDirectories == groupBy(nextGroup, <<>>)
         IN IF Len(nextDirectories) > 1
            THEN [displayPath |-> parts, isDisplayingFile |-> FALSE,
                  hasVariants |-> FALSE, displayVariants |-> <<>>,
                  childFiles |-> nextGroup]
            ELSE LET filteredFiles == SliceAndFilter(nextDirectories[1].items)
                     pushed == Append(parts, nextDirectories[1].key)
                 IN IF Len(filteredFiles) = 0
                    THEN [displayPath |-> pushed, isDisplayingFile |-> TRUE,
                          hasVariants |-> TRUE,
                          displayVariants |-> nextGroup[1].sourceVariants,
                          childFiles |-> <<>>]
                    ELSE DisplayLoop(pushed, filteredFiles)

getDisplayFileName(thisFileName, subFilePaths) ==
    DisplayLoop(<<thisFileName>>, subFilePaths)

\* fileNames.map(name => name.path.slice(-1)[0].length + name.path.length * 2)
\*          .reduce((prev, curr) => Math.max(curr, prev), 0)
RECURSIVE MaxLineLength(_)
MaxLineLength(fileNames) ==
    IF fileNames = <<>> THEN 0
    ELSE LET path == Head(fileNames).path
             curr == Len(path[Len(path)]) + Len(path) * 2
             prev == MaxLineLength(Tail(fileNames))
         IN IF curr > prev THEN curr ELSE prev

RECURSIVE LogDirectories(_, _, _, _, _)
RECURSIVE LogTree(_, _, _, _)
\* the body of logDirectoryTree for a level below the first (maxLength given)
LogTree(fileNames, padding, maxLength, out) ==
    LogDirectories(groupBy(fileNames, <<>>), 1, padding, maxLength, out)

\* the for loop of lines 548-573 from entry i on; `out` is what was printed
\* so far, or the RangeError of String.prototype.repeat
LogDirectories(directoryEntries, i, padding, maxLength, out) ==
    IF ~out.ok \/ i > Len(directoryEntries) THEN out
    ELSE LET thisFileName == directoryEntries[i].key
             groupFiles == directoryEntries[i].items
             display == getDisplayFileName(thisFileName, SliceAndFilter(groupFiles))
             isFirst == i = 1
             isLast == i = Len(directoryEntries)
             isDirectory == ~display.isDisplayingFile /\ Len(display.childFiles) > 0
             lineCharacter == IF isFirst /\ isLast THEN "-"
                              ELSE IF isFirst THEN ","
                              ELSE IF isLast THEN "L" ELSE "+"
             subPadding == padding \o (IF isLast THEN "  " ELSE "| ")
             lineLength == Len(padding) + 2 + Len(Join(display.displayPath, "/"))
             count == maxLength - lineLength + 2
             joined == IF display.hasVariants
                       THEN Join(display.displayVariants, ", ") ELSE ""
             fileVariant == IF joined # "" THEN joined
                            ELSE Join(groupFiles[1].sourceVariants, ", ")
         IN IF ~isDirectory /\ count < 0
            THEN [out EXCEPT !.ok = FALSE,
                             !.error = "Invalid count value: " \o ToString(count)]
            ELSE LogDirectories(
                    directoryEntries, i + 1, padding, maxLength,
                    LogTree(display.childFiles, subPadding, maxLength,
                            [out EXCEPT !.lines =
                                Append(@, [padding |-> padding,
                                           lineCharacter |-> lineCharacter,
                                           displayPath |-> display.displayPath,
                                           isDirectory |-> isDirectory,
                                           endPadding |-> IF isDirectory THEN ""
                                                          ELSE Repeat(" ", count),
                                           fileVariant |-> IF isDirectory THEN ""
                                                           ELSE fileVariant])]))

\* logDirectoryTree(fileNames) as run() calls it: maxLength = -1
logDirectoryTree(fileNames) ==
    LogTree(fileNames, "", MaxLineLength(fileNames),
            [ok |-> TRUE, error |-> "", lines |-> <<>>])

(***************************************************************************)
(* run(): the steps of one run after the configuration is loaded.          *)
(***************************************************************************)
HasPath(map, path) == \E i \in DOMAIN map : map[i].path = path

EntryOf(map, path) == map[CHOOSE i \in DOMAIN map : map[i].path = path]

\* arr.push({variant, sourceText}) on files.get(path), the path being added
\* to the Map at its first source
PushSource(map, path, source) ==
    IF HasPath(map, path)
    THEN [i \in DOMAIN map |->
            IF map[i].path = path
            THEN [path |-> path, sources |-> Append(map[i].sources, source)]
            ELSE map[i]]
    ELSE Append(map, [path |-> path, sources |-> <<source>>])

RECURSIVE CollectVariant(_, _, _)
\* the inner loop of lines 736-740 over the files of one variant
CollectVariant(map, variant, paths) ==
    IF paths = <<>> THEN map
    ELSE CollectVariant(
            PushSource(map, Head(paths),
                       [variant |-> variant,
                        sourceText |-> variantFiles(variant, Head(paths))]),
            variant, Tail(paths))

RECURSIVE CollectFiles(_, _, _)
\* the loop of lines 735-741 over appliedVariantFiles
CollectFiles(map, tmpl, applied) ==
    IF applied = <<>> THEN map
    ELSE CollectFiles(
            CollectVariant(map, Head(applied), EntriesOrder(tmpl.supplies[Head(applied)])),
            tmpl, Tail(applied))

\* Object.entries(template.variantFiles).filter(([k]) =>
\*     variantIdsWithRequired.includes(k)), keys only
appliedVariantFiles(tmpl, variantIdsWithRequired) ==
    SelectIn(EntriesOrder(tmpl.declared), Range(variantIdsWithRequired))

\* the source unshifted onto the sources of package.json (lines 747-755)
InternalNode(cfg, packageName) ==
    [variant |-> "internal.node",
     sourceText |->
        JSONstringify(Obj2("name", JStr(getFullName(cfg, packageName)),
                           "version", JStr("0.1.0")))]

DependencyKeys ==
    <<"dependencies", "devDependencies", "peerDependencies", "optionalDependencies">>

RECURSIVE SortDependencies(_, _)
\* lines 764-786: each dependency object that is truthy goes through sortByKeys
SortDependencies(json, keys) ==
    IF keys = <<>> THEN json
    ELSE LET k == Head(keys)
         IN IF IsObj(json) /\ HasProp(json.e, k) /\ Truthy(GetProp(json.e, k))
            THEN SortDependencies(
                    JObj(SetProp(json.e, k, sortByKeys(GetProp(json.e, k)))), Tail(keys))
            ELSE SortDependencies(json, Tail(keys))

\* the text written for `path` from the merged text (lines 761-789); only
\* defined for package.json when the merged text is JSON
OutputText(path, mergedText) ==
    IF path = PackageJson
    THEN JSONstringify2(SortDependencies(JSONparse(mergedText), DependencyKeys))
    ELSE mergedText

\* one pass of the loop of lines 745-796 over entry i of files
\* PassSources with push in place of unshift: the internal source goes last
PassSourcesPushed(i) ==
    IF files[i].path = PackageJson
    THEN Append(files[i].sources, InternalNode(config, answers.packageName))
    ELSE files[i].sources

PassSources(i) ==
    IF files[i].path = PackageJson
    THEN <<InternalNode(config, answers.packageName)>> \o files[i].sources
    ELSE files[i].sources

LoopPass(i, method, custom) ==
    LET path == files[i].path
        sources == PassSources(i)
        tmpl == WithLookup(template, path, method)
        merged == mergeFiles(tmpl, path, sources, custom)
        parses == path = PackageJson => IsJsonText(merged.sourceText)
    IN [ path |-> path,
         template |-> tmpl,
         files |-> [files EXCEPT ![i].sources = sources],
         merged |-> merged,
         ok |-> merged.ok /\ parses,
         error |-> IF ~merged.ok THEN merged.error
                   ELSE "SyntaxError: Unexpected token in JSON" ]

\* template.variants[variant].scripts
variantScripts(variant) ==
    CASE variant = "b" -> <<"build">>
      [] variant = "1" -> <<"test", "lint">>
      [] OTHER -> <<>>

RECURSIVE FlatScripts(_)
FlatScripts(variantIds) ==
    IF variantIds = <<>> THEN <<>>
    ELSE variantScripts(Head(variantIds)) \o FlatScripts(Tail(variantIds))

getScripts(tmpl, selectedVariants) ==
    FlatScripts(SelectIn(EntriesOrder(tmpl.declared), Range(selectedVariants)))

\* "pnpm", or "none" for the choice whose value is false
PackageManagers == {"pnpm", "none"}

\* the file of the run configuration of a script (lines 805, 821-826): every
\* run of characters that are not letters or digits, here the colon, is
\* replaced by an underscore
RunConfigurationFile(packageName, script) == packageName \o "_" \o script \o ".xml"

\* the save location, split at "/": the package directory under /w
saveLocation(packageName) == <<"", "w", packageName>>

\* the segments of an output path of the templates
Segments(path) == <<path>>

\* the items handed to logDirectoryTree (lines 844-852)
TreeItems(packageName) ==
    [i \in DOMAIN files |->
        [path |-> saveLocation(packageName) \o Segments(files[i].path),
         sourceVariants |-> EntryOf(fileVariants, files[i].path).variants]]

\* the custom merger modules imported by a pass under `method`
ImportsOf(method, custom) ==
    IF custom.kind \in {"none", "importFails"} THEN <<>>
    ELSE <<[module |-> "merge.js", called |-> custom.kind # "notFunction"]>>

\* run() rejects with `message` and the handler of run().catch (lines
\* 855-857) runs: it logs one line to console.error and returns; nothing
\* sets process.exitCode or calls process.exit, so the process ends with
\* exit code 0.  (The handler also wraps the parts of the message between
\* backticks in colour codes.)
Rejects(message) ==
    /\ pc' = "failed"
    /\ error' = message
    /\ console' = [console EXCEPT !.err = Append(@, "Oops, something went wrong! " \o message)]
    /\ exitCode' = 0

RunInit ==
    /\ pc = "load"
    /\ config = [scope |-> ""]
    /\ template = NoTemplate
    /\ answers = NoAnswers
    /\ active = <<>>
    /\ files = <<>>
    /\ fileVariants = <<>>
    /\ disk = EmptyDisk
    /\ error = ""
    /\ imported = <<>>
    /\ spawned = <<>>
    /\ console = NoOutput
    /\ exitCode = -1
    /\ call = NoCall
    /\ ret = Pending

\* loadConfig succeeds; `template` is the template the user is going to pick
LoadConfig ==
    /\ pc = "load"
    /\ config' \in Configs
    /\ template' \in Templates
    /\ pc' = "prompt"
    /\ UNCHANGED <<call, ret, answers, active, files, fileVariants, disk, error,
                   effectVars>>

\* loadConfig throws: readTemplates fails on the templates directory
LoadFails ==
    /\ pc = "load"
    /\ \E dir \in TemplateDirs(1) :
         /\ ~readTemplates(dir).ok
         /\ Rejects(readTemplates(dir).error)
    /\ UNCHANGED <<call, ret, config, template, answers, active, files, fileVariants,
                   disk, imported, spawned>>

\* the answers to the questions about the package manager and the run
\* configurations.  run() reads them at lines 798 and 833 only, so they are
\* drawn where the run reads them or returns.  The second question is asked
\* when the active variants have scripts and .idea exists ("yes", "no");
\* otherwise the answer is undefined ("no")
LateAnswers ==
    { [answers EXCEPT !.packageManager = manager,
                      !.createJetbrainsRunConfigurations = jetbrains] :
        manager \in PackageManagers,
        jetbrains \in IF Len(getScripts(template,
                                         getVariantIdsWithRequired(answers.variants,
                                                                   template))) > 0
                      THEN {"yes", "no"} ELSE {"no"} }

\* the prompts: the checkbox offers the variants that are not required, in
\* the order of Object.entries(template.variants)
Prompt ==
    /\ pc = "prompt"
    /\ \E name \in PackageNames, chosen \in SUBSET (Range(template.declared) \ template.required),
          ok \in BOOLEAN :
         answers' = [NoAnswers EXCEPT
                        !.packageName = name,
                        !.variants = SelectIn(EntriesOrder(template.declared), chosen),
                        !.isSaveLocationOk = ok]
    /\ pc' = "answered"
    /\ UNCHANGED <<call, ret, config, template, active, files, fileVariants, disk, error,
                   effectVars>>

\* Decline that goes on to make the save location
DeclineCreates ==
    /\ pc = "answered"
    /\ ~answers.isSaveLocationOk
    /\ answers' \in LateAnswers
    /\ disk' = [disk EXCEPT !.outDir = "created"]
    /\ pc' = "done"
    /\ exitCode' = 0
    /\ UNCHANGED <<call, ret, config, template, active, files, fileVariants,
                   error, imported, spawned, console>>

\* line 708: if (!isSaveLocationOk) return
Decline ==
    /\ pc = "answered"
    /\ ~answers.isSaveLocationOk
    /\ answers' \in LateAnswers
    /\ pc' = "done"
    /\ exitCode' = 0
    /\ UNCHANGED <<call, ret, config, template, active, files, fileVariants,
                   disk, error, imported, spawned, console>>

\* something else makes the save location after the name was validated
DirectoryAppears ==
    /\ pc = "answered"
    /\ answers.isSaveLocationOk
    /\ disk.outDir = "absent"
    /\ disk' = [disk EXCEPT !.outDir = "exists"]
    /\ UNCHANGED <<call, ret, pc, config, template, answers, active, files,
                   fileVariants, error, effectVars>>

\* line 716: assert(!existsSync(saveLocation), ...)
DestinationConflict ==
    /\ pc = "answered"
    /\ answers.isSaveLocationOk
    /\ disk.outDir = "exists"
    /\ Rejects("Output directory already exists")
    /\ UNCHANGED <<call, ret, config, template, answers, active, files, fileVariants,
                   disk, imported, spawned>>

\* lines 719-741: mkdir(saveLocation), the active variants, the files Map
CreateAndCollect ==
    /\ pc = "answered"
    /\ answers.isSaveLocationOk
    /\ disk.outDir = "absent"
    /\ disk' = [disk EXCEPT !.outDir = "created"]
    /\ LET variantIdsWithRequired == getVariantIdsWithRequired(answers.variants, template)
       IN /\ active' = variantIdsWithRequired
          /\ files' = CollectFiles(<<>>, template,
                                   appliedVariantFiles(template, variantIdsWithRequired))
    /\ pc' = "merging"
    /\ UNCHANGED <<call, ret, config, template, answers, fileVariants, error, effectVars>>

\* one pass of the loop that merges and writes the next path
MergeAndWrite ==
    /\ pc = "merging"
    /\ Len(disk.written) < Len(files)
    /\ \E method \in LookupChoices(template, PassSources(Len(disk.written) + 1)) :
       \E custom \in RunOutcomeChoices(method, PassSources(Len(disk.written) + 1)) :
         LET pass == LoopPass(Len(disk.written) + 1, method, custom)
         IN /\ pass.ok
            /\ template' = pass.template
            /\ files' = pass.files
            /\ fileVariants' = Append(fileVariants,
                    [path |-> pass.path, variants |-> pass.merged.contributingVariants])
            /\ disk' = [disk EXCEPT !.written =
                    Append(@, [path |-> pass.path,
                               text |-> OutputText(pass.path, pass.merged.sourceText)])]
            /\ imported' = imported \o ImportsOf(method, custom)
    /\ UNCHANGED <<call, ret, pc, config, answers, active, error, spawned, console,
                   exitCode>>

\* MergeThrows that takes back what the run made before it throws
MergeThrowsRollsBack ==
    /\ pc = "merging"
    /\ Len(disk.written) < Len(files)
    /\ \E method \in LookupChoices(template, PassSources(Len(disk.written) + 1)) :
       \E custom \in RunOutcomeChoices(method, PassSources(Len(disk.written) + 1)) :
         LET pass == LoopPass(Len(disk.written) + 1, method, custom)
         IN /\ ~pass.ok
            /\ template' = pass.template
            /\ files' = pass.files
            /\ fileVariants' = fileVariants
            /\ Rejects(pass.error)
            /\ imported' = imported \o ImportsOf(method, custom)
    /\ disk' = EmptyDisk
    /\ UNCHANGED <<call, ret, config, answers, active, spawned>>

\* one pass of the loop that throws: mergeFiles fails, or the merged
\* package.json is not JSON (line 762, after fileVariants.set)
MergeThrows ==
    /\ pc = "merging"
    /\ Len(disk.written) < Len(files)
    /\ \E method \in LookupChoices(template, PassSources(Len(disk.written) + 1)) :
       \E custom \in RunOutcomeChoices(method, PassSources(Len(disk.written) + 1)) :
         LET pass == LoopPass(Len(disk.written) + 1, method, custom)
         IN /\ ~pass.ok
            /\ template' = pass.template
            /\ files' = pass.files
            /\ fileVariants' =
                 IF pass.merged.ok
                 THEN Append(fileVariants,
                        [path |-> pass.path, variants |-> pass.merged.contributingVariants])
                 ELSE fileVariants
            /\ Rejects(pass.error)
            /\ imported' = imported \o ImportsOf(method, custom)
    /\ UNCHANGED <<call, ret, config, answers, active, disk, spawned>>

\* lines 798-831: one file under .idea/runConfigurations for each script
RunConfigurationsOf(given) ==
    IF given.createJetbrainsRunConfigurations = "yes"
    THEN LET scripts == getScripts(template, active)
         IN [i \in DOMAIN scripts |-> RunConfigurationFile(given.packageName, scripts[i])]
    ELSE <<>>

\* lines 833-841: the installer runs when a package manager was picked and
\* the files Map has package.json
InstallerRuns(given) ==
    IF given.packageManager # "none" /\ HasPath(files, PackageJson)
    THEN <<[command |-> given.packageManager, arguments |-> <<"install">>]>>
    ELSE <<>>

\* the loop is over: the run configurations, the installer, the tree; the
\* run ends, or String.prototype.repeat throws in logDirectoryTree and the
\* handler of run().catch logs the message
Finish ==
    /\ pc = "merging"
    /\ Len(disk.written) = Len(files)
    /\ LET tree == logDirectoryTree(TreeItems(answers.packageName))
       IN IF tree.ok
          THEN /\ pc' = "done"
               /\ console' = [console EXCEPT !.out = tree.lines]
               /\ exitCode' = 0
               /\ error' = error
          ELSE /\ pc' = "failed"
               /\ error' = tree.error
               /\ console' = [out |-> tree.lines,
                              err |-> Append(console.err,
                                             "Oops, something went wrong! " \o tree.error)]
               /\ exitCode' = 0
    /\ \E given \in LateAnswers :
         /\ answers' = given
         /\ disk' = [disk EXCEPT !.runConfigurations = RunConfigurationsOf(given)]
         /\ spawned' = InstallerRuns(given)
    /\ UNCHANGED <<call, ret, config, template, active, files, fileVariants, imported>>

Next ==
    \/ LoadConfig
    \/ LoadFails
    \/ Prompt
    \/ Decline
    \/ DirectoryAppears
    \/ DestinationConflict
    \/ CreateAndCollect
    \/ MergeAndWrite
    \/ MergeThrows
    \/ Finish

Spec == RunInit /\ [][Next]_vars

(***************************************************************************)
(* Properties of a run (Spec).                                             *)
(***************************************************************************)
\* the save location was made and the files Map was filled
Collected == disk.outDir = "created"

\* the merge loop ran to its end: every path was merged and written
LoopEnded == Collected /\ pc # "merging" /\ Len(disk.written) = Len(files)

\* the active variants that supply `path`
Contributors(path) ==
    {v \in Range(active) \cap Range(template.declared) :
        Contains(template.supplies[v], path)}

WrittenPaths == {disk.written[i].path : i \in DOMAIN disk.written}

WrittenText(path) ==
    disk.written[CHOOSE i \in DOMAIN disk.written : disk.written[i].path = path].text

\* the pass of the loop for `path` has run (to its end, or to the throw)
Passed(path) ==
    \E i \in DOMAIN files :
        /\ files[i].path = path
        /\ \/ i <= Len(disk.written)
           \/ pc = "failed" /\ i = Len(disk.written) + 1

VerbatimFromSoleContributor(path) ==
    Cardinality(Contributors(path)) = 1 =>
        LET v == CHOOSE w \in Contributors(path) : TRUE
        IN /\ WrittenText(path) = variantFiles(v, path)
           /\ HasPath(fileVariants, path)
           /\ EntryOf(fileVariants, path).variants = <<v>>

\* C1 (as stated): every output path to which exactly one active variant
\* contributes is written with that variant's raw text, and that variant
\* alone is credited.
C1_SoleContributorVerbatim ==
    \A path \in WrittenPaths : VerbatimFromSoleContributor(path)

\* C1 (amended): the same for every output path other than package.json;
\* package.json with one contributing variant is a merge of the internal
\* source and that variant.
C1_SoleContributorVerbatimExceptPackageJson ==
    \A path \in WrittenPaths \ {PackageJson} : VerbatimFromSoleContributor(path)

\* C1 witness: two variants are active, one of them alone supplies
\* tsconfig.json, in a layout JSON.stringify does not produce, and the file
\* is written
C1_Witness ==
    /\ pc = "done"
    /\ Cardinality(Range(active)) = 2
    /\ TsConfig \in WrittenPaths
    /\ Contributors(TsConfig) = {"b"}
    /\ WrittenText(TsConfig) = variantFiles("b", TsConfig)
    /\ WrittenText(TsConfig).fmt = "other"

\* C2: every required variant of the template is in the active list, whatever
\* the user selected, and each of its files is a contribution of the run.
C2_RequiredVariantsActiveAndCollected ==
    Collected =>
        \A v \in template.required :
            /\ Contains(active, v)
            /\ \A p \in Range(template.supplies[v]) :
                 /\ HasPath(files, p)
                 /\ Contains(EntryOf(files, p).sources,
                             [variant |-> v, sourceText |-> variantFiles(v, p)])

\* C2 witness: the user selected nothing, the template has a required and an
\* optional variant, and the required variant's file was collected and written
C2_Witness ==
    /\ pc = "done"
    /\ answers.variants = <<>>
    /\ template.required # {}
    /\ template.required # Range(template.declared)
    /\ \E v \in template.required : Contributors(TsConfig) = {v}
    /\ TsConfig \in WrittenPaths

\* C4 (as stated): in every run the contribution list of package.json exists
\* and starts with the internal {name, version "0.1.0"} contribution, also
\* when no active variant supplies package.json.
C4_PackageJsonAlwaysHasInternalSource ==
    LoopEnded =>
        /\ HasPath(files, PackageJson)
        /\ Head(EntryOf(files, PackageJson).sources) =
             InternalNode(config, answers.packageName)

\* C4 (amended): package.json has a contribution list exactly when an active
\* variant supplies it; when its pass of the merge loop runs, the list is the
\* internal {name: full name, version: "0.1.0"} contribution followed by the
\* variants' contributions; when no active variant supplies it there is no
\* internal contribution and no package.json is written.
C4_InternalSourceFirstWhenSupplied ==
    Collected =>
        /\ HasPath(files, PackageJson) <=> Contributors(PackageJson) # {}
        /\ Passed(PackageJson) =>
             LET sources == EntryOf(files, PackageJson).sources
             IN /\ Head(sources) = InternalNode(config, answers.packageName)
                /\ JSONparse(Head(sources).sourceText) =
                     Obj2("name", JStr(getFullName(config, answers.packageName)),
                          "version", JStr("0.1.0"))
                /\ Len(sources) = Cardinality(Contributors(PackageJson)) + 1
                /\ \A j \in 2..Len(sources) :
                     /\ sources[j].variant \in Contributors(PackageJson)
                     /\ sources[j].sourceText = variantFiles(sources[j].variant, PackageJson)
        /\ Contributors(PackageJson) = {} => PackageJson \notin WrittenPaths

\* C4 witness: two variants supply package.json under a scope, and the
\* internal contribution stands before both
C4_Witness ==
    /\ pc = "done"
    /\ config.scope = "@radiant"
    /\ Cardinality(Contributors(PackageJson)) = 2
    /\ Len(EntryOf(files, PackageJson).sources) = 3
    /\ Head(EntryOf(files, PackageJson).sources).variant = "internal.node"
    /\ PackageJson \in WrittenPaths

\* the variants' package.json files that declare a name
DeclaresName(v) ==
    /\ IsJsonText(variantFiles(v, PackageJson))
    /\ HasProp(JSONparse(variantFiles(v, PackageJson)).e, "name")

\* C5: when a variant's package.json declares a name, the name of the written
\* package.json is the user's package name (with the scope), for every merge
\* method of template.json (json, json-shallow, last).
C5_PackageNameOverwritten ==
    ( /\ LoopEnded
      /\ PackageJson \in WrittenPaths
      /\ template.files[PackageJson] \in {"json", "json-shallow", "last"}
      /\ \E v \in Contributors(PackageJson) : DeclaresName(v) ) =>
        LET written == JSONparse(WrittenText(PackageJson))
        IN /\ HasProp(written.e, "name")
           /\ GetProp(written.e, "name") = JStr(getFullName(config, answers.packageName))

\* the keys of an object are in ascending sort() order
KeysSorted(x) ==
    \A i, j \in DOMAIN x.e : i < j => LexLess(x.e[i].k, x.e[j].k)

\* C6: in the written package.json each dependency object that is present has
\* its keys in lexicographic order, and all other keys and all values are
\* those of the merged result.
C6_DependencyKeysSorted ==
    (LoopEnded /\ PackageJson \in WrittenPaths) =>
        LET written == JSONparse(WrittenText(PackageJson))
        IN \A i \in DOMAIN DependencyKeys :
             (HasProp(written.e, DependencyKeys[i])
                /\ IsObj(GetProp(written.e, DependencyKeys[i])))
             => KeysSorted(GetProp(written.e, DependencyKeys[i]))

\* the dependency objects of the written package.json that hold no
\* array-index key are in lexicographic order; an array-index key stands
\* before every other key, in numeric order
DependencyKeysInEnumerationOrder ==
    (LoopEnded /\ PackageJson \in WrittenPaths) =>
        LET written == JSONparse(WrittenText(PackageJson))
        IN \A i \in DOMAIN DependencyKeys :
             (HasProp(written.e, DependencyKeys[i])
                /\ IsObj(GetProp(written.e, DependencyKeys[i])))
             => LET deps == GetProp(written.e, DependencyKeys[i])
                IN \A m, n \in DOMAIN deps.e :
                     m < n =>
                       IF IsIndexKey(deps.e[m].k) /\ IsIndexKey(deps.e[n].k)
                       THEN IndexLess(deps.e[m].k, deps.e[n].k)
                       ELSE IF IsIndexKey(deps.e[n].k) THEN FALSE
                       ELSE IsIndexKey(deps.e[m].k) \/ LexLess(deps.e[m].k, deps.e[n].k)

(***************************************************************************)
(* Properties of getVariantIdsWithRequired (SpecResolve).                  *)
(***************************************************************************)
ResolvedCall == call.op = "getVariantIdsWithRequired" /\ ret.done

RECURSIVE DedupFirst(_)
\* s with every repeated element dropped after its first occurrence
DedupFirst(s) ==
    IF s = <<>> THEN <<>>
    ELSE LET init == DedupFirst(SubSeq(s, 1, Len(s) - 1))
             last == s[Len(s)]
         IN IF Contains(init, last) THEN init ELSE Append(init, last)

MergedWith(method, n) ==
    /\ call.op = "mergeFiles"
    /\ ret.done
    /\ call.method = method
    /\ Len(call.sources) = n
    /\ AllJson(call.sources)

Src(variant, doc) == [variant |-> variant, sourceText |-> JSONstringify2(doc)]

\* merge(X, Y): the json merge of two documents, read back from its text
JsonMerge2(x, y) == JSONparse(MergeJson(<<Src("b", x), Src("2", y)>>).sourceText)

RECURSIVE SameKinds(_, _)
\* no key path holds an object in one value and an array or a scalar in the
\* other, nor an array in one and a scalar in the other
SameKinds(x, y) ==
    IF IsObj(x) /\ IsObj(y)
    THEN \A i \in DOMAIN x.e :
            HasProp(y.e, x.e[i].k) => SameKinds(x.e[i].val, GetProp(y.e, x.e[i].k))
    ELSE IF IsArr(x) /\ IsArr(y) THEN TRUE
    ELSE ~isMergeableObject(x) /\ ~isMergeableObject(y)

PairwiseSameKinds(docs) ==
    \A i, j \in DOMAIN docs : i < j => SameKinds(docs[i], docs[j])

LeftGrouped(docs) == JsonMerge2(JsonMerge2(docs[1], docs[2]), docs[3])

RightGrouped(docs) == JsonMerge2(docs[1], JsonMerge2(docs[2], docs[3]))

\* C7 (as stated): the json merge of A, B, C equals merge(merge(A,B),C) and
\* merge(A,merge(B,C)) for all JSON objects A, B, C.
C7_JsonMergeAssociative ==
    MergedWith("json", 3) =>
        LET docs == ParseAll(call.sources)
        IN /\ ret.value.ok
           /\ JSONparse(ret.value.sourceText) = LeftGrouped(docs)
           /\ JSONparse(ret.value.sourceText) = RightGrouped(docs)

\* C7 (amended): the json merge of A, B, C always equals merge(merge(A,B),C);
\* it equals merge(A,merge(B,C)) whenever no key path holds values of
\* different kinds (object, array, other) in two of the three documents.
C7_JsonMergeAssociativeOnSameKinds ==
    MergedWith("json", 3) =>
        LET docs == ParseAll(call.sources)
        IN /\ ret.value.ok
           /\ ret.value.sourceText = JSONstringify2(LeftGrouped(docs))
           /\ PairwiseSameKinds(docs) =>
                ret.value.sourceText = JSONstringify2(RightGrouped(docs))

\* C7 witness: three documents of equal kinds whose nested objects were merged
\* key by key (the result is none of the inputs and not the shallow merge)
C7_Witness ==
    /\ MergedWith("json", 3)
    /\ LET docs == ParseAll(call.sources)
       IN /\ PairwiseSameKinds(docs)
          /\ JSONparse(ret.value.sourceText) # ObjectAssign(docs)
          /\ \E i, j \in DOMAIN docs :
                /\ i < j
                /\ \E k \in Range(KeysOf(docs[i].e)) :
                     /\ HasProp(docs[j].e, k)
                     /\ IsObj(GetProp(docs[i].e, k))
                     /\ IsObj(GetProp(docs[j].e, k))

(***************************************************************************)
(* The rule of the json merge, key by key.  For a key of both values: two  *)
(* objects merge recursively; two arrays give `arrays` ("concat": earlier  *)
(* followed by later, "replace": the later one); any other pair gives the  *)
(* later value.  Keys of the earlier value come first.                     *)
(***************************************************************************)
RECURSIVE KeyRule(_, _, _)
RECURSIVE KeyRuleEntries(_, _, _)
KeyRuleEntries(dest, src, arrays) ==
    IF src = <<>> THEN dest
    ELSE LET k == Head(src).k
             sv == Head(src).val
             nv == IF HasProp(dest, k) THEN KeyRule(GetProp(dest, k), sv, arrays) ELSE sv
         IN KeyRuleEntries(SetProp(dest, k, nv), Tail(src), arrays)

KeyRule(x, y, arrays) ==
    IF IsObj(x) /\ IsObj(y) THEN JObj(KeyRuleEntries(x.e, y.e, arrays))
    ELSE IF IsArr(x) /\ IsArr(y) /\ arrays = "concat" THEN JArr(x.e \o y.e)
    ELSE y

RECURSIVE KeyRuleAll(_, _, _)
KeyRuleAll(prev, docs, arrays) ==
    IF docs = <<>> THEN prev
    ELSE KeyRuleAll(KeyRule(prev, Head(docs), arrays), Tail(docs), arrays)

\* a finished call of mergeFiles with two or more sources, all JSON
MergedSeveralWith(method) ==
    /\ call.op = "mergeFiles"
    /\ MergedWith(method, Len(call.sources))
    /\ Len(call.sources) >= 2

JsonMergedCall == MergedSeveralWith("json")

\* C8 (as stated): in a json merge, a key of several contributions holds the
\* recursive merge when both values are objects and otherwise the later value
\* alone (arrays replaced, not concatenated); all contributors are credited.
C8_JsonLaterWinsArraysReplaced ==
    JsonMergedCall =>
        LET docs == ParseAll(call.sources)
        IN /\ ret.value.ok
           /\ JSONparse(ret.value.sourceText) = KeyRuleAll(Head(docs), Tail(docs), "replace")
           /\ ret.value.contributingVariants = VariantsOf(call.sources)

\* C8 (amended): as stated, except that two arrays under the same key are
\* concatenated, the earlier contribution's elements first.
C8_JsonLaterWinsArraysConcatenated ==
    JsonMergedCall =>
        LET docs == ParseAll(call.sources)
        IN /\ ret.value.ok
           /\ JSONparse(ret.value.sourceText) = KeyRuleAll(Head(docs), Tail(docs), "concat")
           /\ ret.value.contributingVariants = VariantsOf(call.sources)

\* C8 witness: two contributions hold arrays under the same key and the
\* merged document holds both arrays' elements
C8_Witness ==
    /\ MergedWith("json", 2)
    /\ LET docs == ParseAll(call.sources)
       IN /\ HasProp(docs[1].e, "a") /\ HasProp(docs[2].e, "a")
          /\ IsArr(GetProp(docs[1].e, "a")) /\ IsArr(GetProp(docs[2].e, "a"))
          /\ GetProp(JSONparse(ret.value.sourceText).e, "a") =
                JArr(GetProp(docs[1].e, "a").e \o GetProp(docs[2].e, "a").e)

(***************************************************************************)
(* Properties of json-shallow and last (SpecMerge).                        *)
(***************************************************************************)
\* the index of the last document that has key k
LastWith(docs, k) ==
    CHOOSE i \in DOMAIN docs :
        /\ HasProp(docs[i].e, k)
        /\ \A j \in DOMAIN docs : HasProp(docs[j].e, k) => j <= i

\* C9: a json-shallow merge of two or more contributions has the union of
\* the contributions' top-level keys, each key holding, wholesale, the value
\* of the last contribution that has the key; all contributors are credited.
C9_ShallowLastValueWholesale ==
    MergedSeveralWith("json-shallow") =>
        LET docs == ParseAll(call.sources)
            merged == JSONparse(ret.value.sourceText)
        IN /\ ret.value.ok
           /\ IsObj(merged)
           /\ NoDup(KeysOf(merged.e))
           /\ Range(KeysOf(merged.e)) =
                UNION {Range(KeysOf(docs[i].e)) : i \in DOMAIN docs}
           /\ \A k \in Range(KeysOf(merged.e)) :
                GetProp(merged.e, k) = GetProp(docs[LastWith(docs, k)].e, k)
           /\ ret.value.contributingVariants = VariantsOf(call.sources)

\* C9 witness: two contributions hold different objects under one key and
\* the merged document holds the later object alone
C9_Witness ==
    /\ MergedSeveralWith("json-shallow")
    /\ LET docs == ParseAll(call.sources)
           merged == JSONparse(ret.value.sourceText)
       IN \E i, j \in DOMAIN docs :
            /\ i < j
            /\ HasProp(docs[i].e, "a") /\ HasProp(docs[j].e, "a")
            /\ IsObj(GetProp(docs[i].e, "a")) /\ IsObj(GetProp(docs[j].e, "a"))
            /\ GetProp(docs[i].e, "a") # GetProp(docs[j].e, "a")
            /\ LastWith(docs, "a") = j
            /\ GetProp(merged.e, "a") = GetProp(docs[j].e, "a")
            /\ merged # deepmergeAll(docs)

\* a finished call of mergeFiles under `last` with two or more sources
LastMergedCall ==
    /\ call.op = "mergeFiles"
    /\ ret.done
    /\ call.method = "last"
    /\ Len(call.sources) >= 2

\* C10: under merge method last with two or more contributions the merged
\* text is the text of the final contribution, unchanged, and only that
\* contribution's variant is credited.
C10_LastKeepsFinalContribution ==
    LastMergedCall =>
        /\ ret.value.ok
        /\ ret.value.sourceText = call.sources[Len(call.sources)].sourceText
        /\ ret.value.contributingVariants = <<call.sources[Len(call.sources)].variant>>

\* C10 witness: three contributions, the third unlike the other two, kept
C10_Witness ==
    /\ LastMergedCall
    /\ Len(call.sources) = 3
    /\ call.sources[3].sourceText # call.sources[1].sourceText
    /\ call.sources[3].sourceText # call.sources[2].sourceText
    /\ ret.value.sourceText = call.sources[3].sourceText
    /\ ret.value.contributingVariants = <<"1">>

(***************************************************************************)
(* Properties of custom mergers (SpecMerge).  ret.merger is what the       *)
(* custom merger did during the call.                                      *)
(***************************************************************************)
\* a finished call of mergeFiles under a custom method with two or more sources
CustomMergedCall ==
    /\ call.op = "mergeFiles"
    /\ ret.done
    /\ isCustomMergeMethod(call.method)
    /\ Len(call.sources) >= 2

\* C11: under a custom merge method, a merger that returns a bare string
\* gives that string as the merged text and credits all input variants in
\* contribution order; a merger that returns an object gives exactly the
\* object's sourceText and contributingVariants, also when that list is a
\* strict subset of the input variants.
C11_CustomResultDeterminesTextAndCredit ==
    CustomMergedCall =>
        /\ ret.merger.kind = "string" =>
              /\ ret.value.ok
              /\ ret.value.sourceText = ret.merger.sourceText
              /\ ret.value.contributingVariants = VariantsOf(call.sources)
        /\ ret.merger.kind = "object" =>
              /\ ret.value.ok
              /\ ret.value.sourceText = ret.merger.sourceText
              /\ ret.value.contributingVariants = ret.merger.contributingVariants

\* C11 witness: a merger of three sources returned an object crediting the
\* first variant alone, and mergeFiles credits that variant alone
C11_Witness ==
    /\ CustomMergedCall
    /\ Len(call.sources) = 3
    /\ ret.merger.kind = "object"
    /\ ret.merger.contributingVariants = <<"b">>
    /\ ret.value.contributingVariants = <<"b">>
    /\ ret.value.contributingVariants # VariantsOf(call.sources)
    /\ ret.value.sourceText = MergedText

(***************************************************************************)
(* Properties of the lookup of the merge method in a run (Spec).           *)
(***************************************************************************)
\* the pass of the loop for entry i of files threw
ThrewAt(i) == pc = "failed" /\ disk.outDir = "created" /\ i = Len(disk.written) + 1

\* C12: for every path with two or more contributions for which the files
\* map of the template declares no merge method, mergeFiles fails with an
\* error whose message names the path, and no merged result is produced for
\* the path (nothing is credited, nothing is written).
C12_MissingMergeMethodNamesPath ==
    \A i \in DOMAIN files :
        LET path == files[i].path
        IN (path \in DOMAIN template.files /\ template.files[path] = "none") =>
             /\ Len(files[i].sources) >= 2
             /\ ThrewAt(i)
             /\ error = "Missing merge method for " \o path
             /\ ~HasPath(fileVariants, path)
             /\ path \notin WrittenPaths

\* C12 witness: package.json was merged and written, then tsconfig.json with
\* two contributions and no merge method ended the run
C12_Witness ==
    /\ pc = "failed"
    /\ PackageJson \in WrittenPaths
    /\ HasPath(files, TsConfig)
    /\ Len(EntryOf(files, TsConfig).sources) = 2
    /\ TsConfig \in DOMAIN template.files
    /\ template.files[TsConfig] = "none"
    /\ error = "Missing merge method for tsconfig.json"

(***************************************************************************)
(* SpecLoad: readTemplates taken alone, on templates directories whose     *)
(* entries are a sound template or a sound template with one thing wrong.  *)
(***************************************************************************)
LoadInit ==
    /\ call \in [op : {"readTemplates"}, dir : TemplateDirs(MaxTemplates)]
    /\ ret = Pending
    /\ RunIdle

CallReadTemplates ==
    /\ call.op = "readTemplates"
    /\ ~ret.done
    /\ ret' = Returned(readTemplates(call.dir))
    /\ UNCHANGED <<call, runVars>>

LoadNext == CallReadTemplates

SpecLoad == LoadInit /\ [][LoadNext]_vars

(***************************************************************************)
(* Properties of readTemplates (SpecLoad).                                 *)
(***************************************************************************)
LoadedCall == call.op = "readTemplates" /\ ret.done

\* template.json was read, is JSON and passes templateSchema
Validated(entry) ==
    /\ entry.kind = "dir"
    /\ entry.json = "parsed"
    /\ isValidTemplate(entry)

\* template.json is JSON and fails templateSchema
FailsSchema(entry) ==
    /\ entry.kind = "dir"
    /\ entry.json = "parsed"
    /\ ~isValidTemplate(entry)

\* a file that a variant declares is not on disk
DeclaredFileAbsent(entry) ==
    /\ Validated(entry)
    /\ \E i \in DOMAIN entry.variants :
         \E j \in DOMAIN entry.variants[i].files :
            \/ entry.variants[i].dir # "dir"
            \/ entry.variants[i].files[j].state = "absent"

\* C13 (as stated): loading the templates fails if and only if at least one
\* variant's declared file is absent on disk or a template definition fails
\* schema validation; in every other case loading succeeds.
C13_LoadFailsIffFileAbsentOrSchemaInvalid ==
    LoadedCall =>
        (~ret.value.ok <=>
            \E i \in DOMAIN call.dir.entries :
                \/ DeclaredFileAbsent(call.dir.entries[i])
                \/ FailsSchema(call.dir.entries[i]))

\* two variants of the template share a display name
VariantNameTwice(entry) ==
    \E i, j \in DOMAIN entry.variants :
        i < j /\ entry.variants[i].displayName = entry.variants[j].displayName

\* a variant's directory is missing or is no directory, or one of its
\* declared files is missing or is no file
VariantUnreadable(entry) ==
    \E i \in DOMAIN entry.variants :
        \/ entry.variants[i].dir # "dir"
        \/ \E j \in DOMAIN entry.variants[i].files :
              entry.variants[i].files[j].state # "file"

\* two templates of the directory share a display name
TemplateNameTwice(entries) ==
    \E i, j \in DOMAIN entries :
        /\ i < j
        /\ Validated(entries[i]) /\ Validated(entries[j])
        /\ entries[i].displayName = entries[j].displayName

\* C13 (amended): loading fails if and only if the templates directory is
\* missing, or an entry of it is not a directory, has no template.json, has
\* one that is not JSON or fails the schema, or declares two variants with
\* one display name, or a variant directory is missing or not a directory,
\* or a declared file is missing or not a file, or two templates share a
\* display name; in every other case loading succeeds with one loaded
\* template per entry, holding every declared file of every variant.
C13_LoadFailsIffSomeCheckFails ==
    LoadedCall =>
        LET entries == call.dir.entries
        IN /\ ~ret.value.ok <=>
                \/ ~call.dir.exists
                \/ \E i \in DOMAIN entries :
                      \/ ~Validated(entries[i])
                      \/ VariantNameTwice(entries[i])
                      \/ VariantUnreadable(entries[i])
                \/ TemplateNameTwice(entries)
           /\ ret.value.ok =>
                /\ Len(ret.value.templates) = Len(entries)
                /\ \A i \in DOMAIN entries :
                     /\ ret.value.templates[i].id = entries[i].id
                     /\ \A n \in DOMAIN entries[i].variants :
                          \E m \in DOMAIN ret.value.templates[i].variantFiles :
                             /\ ret.value.templates[i].variantFiles[m].variant =
                                  entries[i].variants[n].id
                             /\ ret.value.templates[i].variantFiles[m].files =
                                  [j \in DOMAIN entries[i].variants[n].files |->
                                      entries[i].variants[n].files[j].path]

\* C13 witness: two templates with every file on disk and a valid
\* definition each, sharing a display name: loading fails
C13_Witness ==
    /\ LoadedCall
    /\ Len(call.dir.entries) = 2
    /\ \A i \in DOMAIN call.dir.entries :
         /\ Validated(call.dir.entries[i])
         /\ ~DeclaredFileAbsent(call.dir.entries[i])
         /\ ~VariantUnreadable(call.dir.entries[i])
    /\ ~ret.value.ok
    /\ ret.value.error = "Invalid template app: duplicate display name"

(***************************************************************************)
(* SpecTree: logDirectoryTree taken alone, on lists of output paths below  *)
(* a root.  No path of a list is a prefix of another: the paths are the    *)
(* keys of a Map and each was written as a file.                           *)
(***************************************************************************)
\* the most output paths of a tree
MaxPaths == 2

TreeDirNames == {"a", "b", "library"}

TreeFileNames == {"c.txt", "d.txt"}

\* the segments of the save location: none (paths as the template writes
\* them) or an absolute directory, whose split starts with ""
TreeRoots == {<<>>, <<"", "w">>}

TreePaths ==
    {dirs \o <<name>> : dirs \in SeqsUpTo(TreeDirNames, 2), name \in TreeFileNames}

\* the credited variants of the i-th path
TreeVariants == <<<<"b">>, <<"b", "2">>, <<"internal.node", "1">>>>

TreeInputs(max) ==
    UNION { { [i \in 1..n |-> [path |-> root \o f[i], sourceVariants |-> TreeVariants[i]]] :
                root \in TreeRoots,
                f \in {g \in [1..n -> TreePaths] : NoDup(g)} } :
            n \in 0..max }

TreeInit ==
    /\ call \in [op : {"logDirectoryTree"}, fileNames : TreeInputs(MaxPaths)]
    /\ ret = Pending
    /\ RunIdle

CallLogDirectoryTree ==
    /\ call.op = "logDirectoryTree"
    /\ ~ret.done
    /\ ret' = Returned(logDirectoryTree(call.fileNames))
    /\ UNCHANGED <<call, runVars>>

TreeNext == CallLogDirectoryTree

SpecTree == TreeInit /\ [][TreeNext]_vars

(***************************************************************************)
(* Properties of the rendered tree (SpecTree).                             *)
(***************************************************************************)
TreeCall == call.op = "logDirectoryTree" /\ ret.done

TreePathsOf(fileNames) == {fileNames[i].path : i \in DOMAIN fileNames}

\* the nesting level of a printed line: two characters of padding a level
LevelOf(line) == Len(line.padding) \div 2

\* the line under which line i is printed (0 at the first level)
ParentLine(lines, i) ==
    IF LevelOf(lines[i]) = 0 THEN 0
    ELSE CHOOSE j \in 1..(i - 1) :
            /\ LevelOf(lines[j]) = LevelOf(lines[i]) - 1
            /\ \A m \in (j + 1)..(i - 1) : LevelOf(lines[m]) >= LevelOf(lines[i])

RECURSIVE FullPath(_, _)
\* the segments from the root to the end of line i
FullPath(lines, i) ==
    IF ParentLine(lines, i) = 0 THEN lines[i].displayPath
    ELSE FullPath(lines, ParentLine(lines, i)) \o lines[i].displayPath

IsPrefix(p, q) == Len(p) <= Len(q) /\ SubSeq(q, 1, Len(p)) = p

\* the distinct children of directory `dir` among the paths
ChildrenOf(paths, dir) ==
    {path[Len(dir) + 1] : path \in {q \in paths : IsPrefix(dir, q) /\ Len(q) > Len(dir)}}

\* C16: every printed line folds a chain of directories that have exactly
\* one distinct child each; a directory line ends where the children
\* diverge and its children are printed on lines of their own below it; a
\* file line ends at an output path; when the tree is printed to its end,
\* every output path has its file line.  (a/b/c.txt and a/b/d.txt: one line
\* a/b, then c.txt and d.txt; a/b/c.txt alone: one line.)
C16_TreeFoldsSingleChildChains ==
    TreeCall =>
        LET lines == ret.value.lines
            paths == TreePathsOf(call.fileNames)
        IN /\ \A i \in DOMAIN lines :
                LET full == FullPath(lines, i)
                    base == Len(full) - Len(lines[i].displayPath)
                IN /\ \A k \in (base + 1)..(Len(full) - 1) :
                        Cardinality(ChildrenOf(paths, SubSeq(full, 1, k))) = 1
                   /\ lines[i].isDirectory =>
                        Cardinality(ChildrenOf(paths, full)) >= 2
                   /\ ~lines[i].isDirectory => full \in paths
                   /\ \A j \in DOMAIN lines : FullPath(lines, j) = full => j = i
           /\ ret.value.ok =>
                /\ \A path \in paths :
                     \E i \in DOMAIN lines :
                        ~lines[i].isDirectory /\ FullPath(lines, i) = path
                /\ \A i \in DOMAIN lines :
                     lines[i].isDirectory =>
                        Cardinality({j \in DOMAIN lines : ParentLine(lines, j) = i}) =
                          Cardinality(ChildrenOf(paths, FullPath(lines, i)))

\* C16 witness: a/b/c.txt and a/b/d.txt are printed as the line a/b and the
\* two lines c.txt and d.txt below it
C16_Witness ==
    /\ TreeCall
    /\ ret.value.ok
    /\ [i \in DOMAIN call.fileNames |-> call.fileNames[i].path] =
         << <<"a", "b", "c.txt">>, <<"a", "b", "d.txt">> >>
    /\ [i \in DOMAIN ret.value.lines |-> ret.value.lines[i].displayPath] =
         << <<"a", "b">>, <<"c.txt">>, <<"d.txt">> >>
    /\ ret.value.lines[1].isDirectory
    /\ ret.value.lines[2].padding = "  "

\* C18: for every list of output paths and every save location the tree
\* renderer completes without error: the count of the end padding,
\* maxLength - lineLength + 2, is never negative.
C18_EndPaddingNeverNegative ==
    TreeCall => ret.value.ok


(***************************************************************************)
(* What a failing run leaves behind (Spec).                                *)
(***************************************************************************)
\* run() rejected at line 716: the save location was there already
ConflictFailed == pc = "failed" /\ error = "Output directory already exists"

\* run() rejected inside the loop of lines 745-796: a pass threw before every
\* path was written
MergeFailed == pc = "failed" /\ Len(disk.written) < Len(files)

\* C14 as stated: when a step of the merge phase fails (no merge method, a
\* custom merger that is not a function, a custom result that fails the
\* schema, the output directory existing already), the run has created no
\* output directory and has written no output file at the moment the error
\* is reported.
C14_NoPartialOutputOnMergeFailure ==
    (ConflictFailed \/ MergeFailed) =>
        /\ disk.outDir # "created"
        /\ disk.written = <<>>

\* C14 amended: a run that fails because the output directory exists has
\* created nothing and written nothing; a run that fails in a pass of the
\* merge loop has created the output directory (line 719 runs before the
\* loop) and has written exactly the paths of the passes before the failing
\* one, in the order of the files Map, and nothing for the failing path or
\* any later one; no run configuration was made and no installer was run.
C14_FailureLeavesEarlierPassesOnDisk ==
    /\ ConflictFailed =>
          /\ disk.outDir = "exists"
          /\ disk.written = <<>>
          /\ files = <<>>
    /\ MergeFailed =>
          /\ disk.outDir = "created"
          /\ \A i \in DOMAIN disk.written :
                /\ disk.written[i].path = files[i].path
                /\ fileVariants[i].path = files[i].path
          /\ Len(fileVariants) <= Len(disk.written) + 1
          /\ disk.runConfigurations = <<>>
          /\ spawned = <<>>

\* C14 witness: the second pass fails for want of a merge method after the
\* first path was written into the directory the run made
C14_Witness ==
    /\ MergeFailed
    /\ Len(disk.written) = 1
    /\ template.files[files[2].path] = "none"
    /\ disk.outDir = "created"


\* C15 as stated: every failure of a run (load error, merge configuration
\* error, destination conflict, exception of a custom merger) is reported as
\* one message and the process ends with a non-zero outcome; no failing run
\* ends with a success outcome.
C15_FailureEndsNonZero ==
    pc = "failed" =>
        /\ Len(console.err) = 1
        /\ exitCode # 0


(***************************************************************************)
(* The order of the contributions of a path (Spec).                        *)
(***************************************************************************)
\* the active contributors of `path` in the order template.json declares
\* its variants
DeclaredContributors(path) == SelectIn(template.declared, Contributors(path))

\* the variants of the sources collected for entry i of files, the source
\* the loop puts in front of package.json aside
CollectedVariants(i) ==
    SelectIn(VariantsOf(files[i].sources), Range(template.declared))

\* `path` was merged with the merge method last
MergedWithLast(path) ==
    /\ path \in WrittenPaths
    /\ path \in DOMAIN template.files
    /\ template.files[path] = "last"

\* C17 as stated: for every output path the contributions are in the order
\* in which template.json declares the variants, whatever the order of the
\* selection and wherever the required variants stand in the active list;
\* the merge method last keeps the active contributor declared last.
C17_ContributionsInDeclarationOrder ==
    Collected =>
        \A i \in DOMAIN files :
            /\ CollectedVariants(i) = DeclaredContributors(files[i].path)
            /\ MergedWithLast(files[i].path) =>
                 LET declared == DeclaredContributors(files[i].path)
                 IN EntryOf(fileVariants, files[i].path).variants =
                        <<declared[Len(declared)]>>

\* what the code keeps: the contributions are in the order in which
\* Object.entries enumerates template.variantFiles, and last keeps the
\* contributor that comes last in that enumeration
ContributionsInEnumerationOrder ==
    Collected =>
        \A i \in DOMAIN files :
            LET enumerated == SelectIn(EntriesOrder(template.declared),
                                       Contributors(files[i].path))
            IN /\ CollectedVariants(i) = enumerated
               /\ MergedWithLast(files[i].path) =>
                    EntryOf(fileVariants, files[i].path).variants =
                        <<enumerated[Len(enumerated)]>>


(***************************************************************************)
(* The variants credited for a path (Spec).                                *)
(***************************************************************************)
\* how entry i of fileVariants was merged: "single" for a lone source, else
\* the merge method template.files holds for the path
CreditedMethod(i) ==
    LET path == fileVariants[i].path
    IN IF path \in DOMAIN template.files THEN template.files[path] ELSE "single"

BuiltInMethods == {"single", "json", "json-shallow", "last"}

\* C19 as stated: for every path merged with json, json-shallow, last or as
\* a single contribution, every ID credited for the path is the ID of a
\* variant of the template that is in the active set of the run.
C19_CreditedVariantsAreActiveTemplateVariants ==
    \A i \in DOMAIN fileVariants :
        CreditedMethod(i) \in BuiltInMethods =>
            Range(fileVariants[i].variants)
                \subseteq (Range(active) \cap Range(template.declared))

\* C19 amended: for every such path the credited list is not empty and every
\* credited ID is an active variant of the template that supplies the path,
\* except that package.json merged with json or json-shallow also credits
\* "internal.node", the source the run puts in front of its contributions.
C19_CreditedAreContributorsOrInternalNode ==
    \A i \in DOMAIN fileVariants :
        CreditedMethod(i) \in BuiltInMethods =>
            LET path == fileVariants[i].path
                credited == Range(fileVariants[i].variants)
            IN /\ credited # {}
               /\ credited \subseteq
                    (Contributors(path)
                     \cup (IF /\ path = PackageJson
                              /\ CreditedMethod(i) \in {"json", "json-shallow"}
                           THEN {"internal.node"} ELSE {}))
               /\ (path = PackageJson /\ CreditedMethod(i) \in {"json", "json-shallow"})
                    => "internal.node" \in credited

\* C19 witness: a finished run whose package.json was merged with json and
\* credits internal.node and an active variant, and whose tsconfig.json was
\* merged with last and credits one of its two contributors
C19_Witness ==
    /\ pc = "done"
    /\ \E i, j \in DOMAIN fileVariants :
         /\ fileVariants[i].path = PackageJson
         /\ CreditedMethod(i) = "json"
         /\ "internal.node" \in Range(fileVariants[i].variants)
         /\ Range(fileVariants[i].variants) \cap Range(active) # {}
         /\ fileVariants[j].path = TsConfig
         /\ CreditedMethod(j) = "last"
         /\ Cardinality(Contributors(TsConfig)) = 2
         /\ Range(fileVariants[j].variants) \subseteq Contributors(TsConfig)


(***************************************************************************)
(* A declined run (Spec).                                                  *)
(***************************************************************************)
\* the run returned at line 708: the user answered no to the save location
Declined == pc = "done" /\ ~answers.isSaveLocationOk

\* C20: when the user declines the save location, the run ends without
\* creating the output directory, writing a file, merging a path, invoking
\* a custom merger, creating run configurations or running the installer,
\* and it ends without an error; the file system is as it was.
C20_DeclineLeavesEverythingUnchanged ==
    Declined =>
        /\ disk = EmptyDisk
        /\ active = <<>>
        /\ files = <<>>
        /\ fileVariants = <<>>
        /\ template.files = <<>>
        /\ imported = <<>>
        /\ spawned = <<>>
        /\ console = NoOutput
        /\ error = ""
        /\ exitCode = 0

\* C20 witness: the user picked variants with scripts, asked for run
\* configurations and a package manager, and then declined
C20_Witness ==
    /\ Declined
    /\ answers.variants # <<>>
    /\ answers.createJetbrainsRunConfigurations = "yes"
    /\ answers.packageManager = "pnpm"
    /\ disk.outDir = "absent"

====
